---- MODULE Spec2Model ----
(***************************************************************************)
(* Model of src/src/graph.rs: a directed graph kept as a vector of live    *)
(* Vertex records plus an AdjacencyList (a vector of neighbour vectors     *)
(* indexed by vertex id).                                                  *)
(*                                                                         *)
(* Rust vectors are 0-indexed, TLA+ sequences 1-indexed: slot v of the      *)
(* adjacency list is adjacency_list[v + 1].  An out-of-bounds index panics; *)
(* every operator that can panic returns a record with an `ok` flag and    *)
(* the graph as the panic leaves it (the writes made before the panic are  *)
(* kept, the ones after it are not made).                                  *)
(***************************************************************************)
EXTENDS Naturals, Sequences, FiniteSets

VARIABLES
    name,            \* Graph.name
    next_id,         \* Graph.next_id
    vertices,        \* Graph.vertices: the live Vertex records, in order
    adjacency_list,  \* Graph.adjacency_list.vertices: Vec<Vec<usize>>
    last,            \* the call that produced this state, and whether it returned
    since,           \* history: per slot, the dst of every successful add_edge
                     \*          call on it since the slot was created or cleared
    issued,          \* history: the id given by each add_vertex call, in call order
    base,            \* history: the live ids before the current run of deletions
    deleted,         \* history: the live ids deleted, in order, since `base`
    phase            \* history: progress of new(); add_vertices(n); fully_connect()

vars == <<name, next_id, vertices, adjacency_list, last, since, issued, base,
          deleted, phase>>

(* Bounds of the model. *)
MaxVertices == 3     \* add_vertex is called at most this many times
MaxEdges == 2        \* add_edge is offered while fewer edges than this are stored
MaxId == 3           \* ids passed as arguments range over 0..MaxId

Ids == 0..MaxId

None == "None"

(***************************************************************************)
(* Data                                                                    *)
(***************************************************************************)
Vertex(id) == [id |-> id, pre |-> None, post |-> None]

Graph_new == [name |-> "", next_id |-> 0, vertices |-> <<>>, adjacency_list |-> <<>>]

\* The Graph value held in the state variables.
G == [name |-> name, next_id |-> next_id, vertices |-> vertices,
      adjacency_list |-> adjacency_list]

\* The ids of a sequence of Vertex records, in order.
IdsOf(vs) == [i \in 1..Len(vs) |-> vs[i].id]

Range(s) == {s[i] : i \in 1..Len(s)}

Live(g) == Range(IdsOf(g.vertices))

(***************************************************************************)
(* AdjacencyList                                                           *)
(***************************************************************************)
AddEdgePrepend(al, src, dst) ==
    IF src < Len(al)
    THEN [ok |-> TRUE, al |-> [al EXCEPT ![src + 1] = <<dst>> \o @]]
    ELSE [ok |-> FALSE, al |-> al]

\* self.vertices[*src].push(*dst)
AdjacencyList_add_edge(al, src, dst) ==
    IF src < Len(al)
    THEN [ok |-> TRUE, al |-> [al EXCEPT ![src + 1] = Append(@, dst)]]
    ELSE [ok |-> FALSE, al |-> al]

DeleteVertexKeepsSlot(al, v) ==
    IF v < Len(al)
    THEN [ok |-> TRUE, al |-> al]
    ELSE [ok |-> FALSE, al |-> al]

DeleteVertexPurgesIncoming(al, v) ==
    IF v < Len(al)
    THEN [ok |-> TRUE,
          al |-> [u \in 1..Len(al) |->
                    IF u = v + 1 THEN <<>>
                    ELSE SelectSeq(al[u], LAMBDA d : d # v)]]
    ELSE [ok |-> FALSE, al |-> al]

DeleteVertexRemovesSlot(al, v) ==
    IF v < Len(al)
    THEN [ok |-> TRUE,
          al |-> [u \in 1..(Len(al) - 1) |-> IF u < v + 1 THEN al[u] ELSE al[u + 1]]]
    ELSE [ok |-> FALSE, al |-> al]

\* self.vertices[*v] = vec![]
AdjacencyList_delete_vertex(al, v) ==
    IF v < Len(al)
    THEN [ok |-> TRUE, al |-> [al EXCEPT ![v + 1] = <<>>]]
    ELSE [ok |-> FALSE, al |-> al]

\* &self.vertices[src]
AdjacencyList_get_adjacent_vertices(al, src) ==
    IF src < Len(al)
    THEN [ok |-> TRUE, value |-> al[src + 1]]
    ELSE [ok |-> FALSE, value |-> <<>>]

(***************************************************************************)
(* Graph                                                                   *)
(***************************************************************************)
AddVertexIdFromCount(g) ==
    LET pushed == [g EXCEPT !.vertices = Append(@, Vertex(Len(g.vertices)))]
    IN  IF g.next_id # Len(g.adjacency_list)
        THEN [ok |-> FALSE, g |-> pushed]
        ELSE [ok |-> TRUE,
              g |-> [pushed EXCEPT !.adjacency_list = Append(@, <<>>),
                                   !.next_id = @ + 1]]

AddVertexNoIncrement(g) ==
    LET pushed == [g EXCEPT !.vertices = Append(@, Vertex(g.next_id))]
    IN  IF g.next_id # Len(g.adjacency_list)
        THEN [ok |-> FALSE, g |-> pushed]
        ELSE [ok |-> TRUE, g |-> [pushed EXCEPT !.adjacency_list = Append(@, <<>>)]]

\* push the Vertex, assert_eq!(next_id, slots), push the slot, next_id += 1
Graph_add_vertex(g) ==
    LET pushed == [g EXCEPT !.vertices = Append(@, Vertex(g.next_id))]
    IN  IF g.next_id # Len(g.adjacency_list)
        THEN [ok |-> FALSE, g |-> pushed]
        ELSE [ok |-> TRUE,
              g |-> [pushed EXCEPT !.adjacency_list = Append(@, <<>>),
                                   !.next_id = @ + 1]]

AddEdgeChecksDst(g, src, dst) ==
    LET r == AdjacencyList_add_edge(g.adjacency_list, src, dst)
    IN  IF dst < Len(g.adjacency_list)
        THEN [ok |-> r.ok, g |-> [g EXCEPT !.adjacency_list = r.al]]
        ELSE [ok |-> FALSE, g |-> g]

Graph_add_edge(g, src, dst) ==
    LET r == AdjacencyList_add_edge(g.adjacency_list, src, dst)
    IN  [ok |-> r.ok, g |-> [g EXCEPT !.adjacency_list = r.al]]

RECURSIVE Graph_add_vertices(_, _)
Graph_add_vertices(g, n_vertices) ==
    IF n_vertices = 0
    THEN [ok |-> TRUE, g |-> g]
    ELSE LET r == Graph_add_vertex(g)
         IN  IF r.ok THEN Graph_add_vertices(r.g, n_vertices - 1) ELSE r

\* The loop nest of fully_connect, entered at indices (i, j).
RECURSIVE fully_connect_from(_, _, _)
fully_connect_from(g, i, j) ==
    IF i >= Len(g.vertices) THEN [ok |-> TRUE, g |-> g]
    ELSE IF j >= Len(g.vertices) THEN fully_connect_from(g, i + 1, 0)
    ELSE LET vertex1 == g.vertices[i + 1].id
             vertex2 == g.vertices[j + 1].id
             r == Graph_add_edge(g, vertex1, vertex2)
         IN  IF r.ok THEN fully_connect_from(r.g, i, j + 1) ELSE r

RECURSIVE no_self_loops_from(_, _, _)
no_self_loops_from(g, i, j) ==
    IF i >= Len(g.vertices) THEN [ok |-> TRUE, g |-> g]
    ELSE IF j >= Len(g.vertices) THEN no_self_loops_from(g, i + 1, 0)
    ELSE IF i = j THEN no_self_loops_from(g, i, j + 1)
    ELSE LET r == Graph_add_edge(g, g.vertices[i + 1].id, g.vertices[j + 1].id)
         IN  IF r.ok THEN no_self_loops_from(r.g, i, j + 1) ELSE r

FullyConnectNoSelfLoops(g) == no_self_loops_from(g, 0, 0)

Graph_fully_connect(g) == fully_connect_from(g, 0, 0)

Graph_count_vertices(g) == Len(g.vertices)

RECURSIVE SumLen(_)
SumLen(al) == IF al = <<>> THEN 0 ELSE Len(Head(al)) + SumLen(Tail(al))

Graph_count_edges(g) == SumLen(g.adjacency_list)

RetainBelow(vs, v) == SelectSeq(vs, LAMBDA element : element.id < v)

RetainInverted(vs, v) == SelectSeq(vs, LAMBDA element : element.id = v)

\* self.vertices.retain(|element| element.id() != *v)
retain(vs, v) == SelectSeq(vs, LAMBDA element : element.id # v)

Graph_delete_vertex(g, v) ==
    LET kept == [g EXCEPT !.vertices = retain(@, v)]
        r == AdjacencyList_delete_vertex(kept.adjacency_list, v)
    IN  [ok |-> r.ok, g |-> [kept EXCEPT !.adjacency_list = r.al]]

\* One printed line per live vertex: its id and its slot.
RECURSIVE display_from(_, _, _)
display_from(g, i, out) ==
    IF i >= Len(g.vertices) THEN [ok |-> TRUE, out |-> out]
    ELSE LET v == g.vertices[i + 1]
         IN  IF v.id < Len(g.adjacency_list)
             THEN display_from(g, i + 1, Append(out, <<v.id, g.adjacency_list[v.id + 1]>>))
             ELSE [ok |-> FALSE, out |-> out]

Graph_display(g) == display_from(g, 0, <<>>)

\* The first live vertex with the id, or None.
Graph_get_vertex(g, id) ==
    IF \E i \in 1..Len(g.vertices) : g.vertices[i].id = id
    THEN g.vertices[CHOOSE i \in 1..Len(g.vertices) :
                        /\ g.vertices[i].id = id
                        /\ \A k \in 1..(i - 1) : g.vertices[k].id # id]
    ELSE None

Graph_get_adjacent_vertices(g, v) ==
    AdjacencyList_get_adjacent_vertices(g.adjacency_list, v)

(***************************************************************************)
(* History kept beside the program state, to state the properties          *)
(***************************************************************************)
Call(op, x, y, ok) == [op |-> op, x |-> x, y |-> y, ok |-> ok]

Other == [st |-> "other", n |-> 0]

\* The (src, dst) arguments of the add_edge calls fully_connect makes over
\* the live vertices vs, in call order.
RECURSIVE fully_connect_calls(_, _, _)
fully_connect_calls(vs, i, j) ==
    IF i >= Len(vs) THEN <<>>
    ELSE IF j >= Len(vs) THEN fully_connect_calls(vs, i + 1, 0)
    ELSE <<<<vs[i + 1].id, vs[j + 1].id>>>> \o fully_connect_calls(vs, i, j + 1)

\* The history `since` after the successful add_edge calls cs.
RECURSIVE Record(_, _)
Record(h, cs) ==
    IF cs = <<>> THEN h
    ELSE Record([h EXCEPT ![Head(cs)[1] + 1] = Append(@, Head(cs)[2])], Tail(cs))

Empties(k) == [i \in 1..k |-> <<>>]

\* Store a Graph value into the state variables.
Commit(g) ==
    /\ name' = g.name
    /\ next_id' = g.next_id
    /\ vertices' = g.vertices
    /\ adjacency_list' = g.adjacency_list

\* A call that is not part of a run of deletions of live vertices.
EndsDeletions(r) ==
    IF r.ok
    THEN base' = IdsOf(r.g.vertices) /\ deleted' = <<>>
    ELSE UNCHANGED <<base, deleted>>

(***************************************************************************)
(* The public operations of Graph that change it, one action each          *)
(***************************************************************************)
Init ==
    /\ name = Graph_new.name
    /\ next_id = Graph_new.next_id
    /\ vertices = Graph_new.vertices
    /\ adjacency_list = Graph_new.adjacency_list
    /\ last = Call("new", 0, 0, TRUE)
    /\ since = <<>>
    /\ issued = <<>>
    /\ base = <<>>
    /\ deleted = <<>>
    /\ phase = [st |-> "new", n |-> 0]

\* A call that panicked ended the run: nothing follows it.
Running == last.ok

AddVertex ==
    /\ Running
    /\ next_id < MaxVertices
    /\ LET r == Graph_add_vertex(G)
       IN  /\ Commit(r.g)
           /\ last' = Call("add_vertex", 0, 0, r.ok)
           /\ since' = since \o Empties(Len(r.g.adjacency_list) - Len(adjacency_list))
           /\ issued' = issued \o SubSeq(IdsOf(r.g.vertices), Len(vertices) + 1,
                                         Len(r.g.vertices))
           /\ EndsDeletions(r)
           /\ phase' = Other

AddVertices(n_vertices) ==
    /\ Running
    /\ next_id + n_vertices <= MaxVertices
    /\ LET r == Graph_add_vertices(G, n_vertices)
       IN  /\ Commit(r.g)
           /\ last' = Call("add_vertices", n_vertices, 0, r.ok)
           /\ since' = since \o Empties(Len(r.g.adjacency_list) - Len(adjacency_list))
           /\ issued' = issued \o SubSeq(IdsOf(r.g.vertices), Len(vertices) + 1,
                                         Len(r.g.vertices))
           /\ EndsDeletions(r)
           /\ phase' = IF phase.st = "new" /\ r.ok
                       THEN [st |-> "added", n |-> n_vertices]
                       ELSE Other

AddEdge(src, dst) ==
    /\ Running
    /\ Graph_count_edges(G) < MaxEdges
    /\ LET r == Graph_add_edge(G, src, dst)
       IN  /\ Commit(r.g)
           /\ last' = Call("add_edge", src, dst, r.ok)
           /\ since' = IF r.ok THEN Record(since, <<<<src, dst>>>>) ELSE since
           /\ UNCHANGED issued
           /\ EndsDeletions(r)
           /\ phase' = Other

FullyConnect ==
    /\ Running
    /\ Graph_count_edges(G) <= MaxEdges
    /\ LET r == Graph_fully_connect(G)
       IN  /\ Commit(r.g)
           /\ last' = Call("fully_connect", 0, 0, r.ok)
           /\ since' = IF r.ok THEN Record(since, fully_connect_calls(vertices, 0, 0))
                       ELSE since
           /\ UNCHANGED issued
           /\ EndsDeletions(r)
           /\ phase' = IF phase.st = "added" /\ r.ok
                       THEN [st |-> "connected", n |-> phase.n]
                       ELSE Other

DeleteVertex(v) ==
    /\ Running
    /\ LET r == Graph_delete_vertex(G, v)
       IN  /\ Commit(r.g)
           /\ last' = Call("delete_vertex", v, 0, r.ok)
           /\ since' = IF r.ok THEN [since EXCEPT ![v + 1] = <<>>] ELSE since
           /\ UNCHANGED issued
           /\ IF v \in Live(G)
              THEN base' = base /\ deleted' = Append(deleted, v)
              ELSE EndsDeletions(r)
           /\ phase' = Other

Next ==
    \/ AddVertex
    \/ \E n_vertices \in 0..MaxVertices : AddVertices(n_vertices)
    \/ \E src \in Ids, dst \in Ids : AddEdge(src, dst)
    \/ FullyConnect
    \/ \E v \in Ids : DeleteVertex(v)

Spec == Init /\ [][Next]_vars

(***************************************************************************)
(* Properties                                                              *)
(***************************************************************************)
core == <<name, next_id, vertices, adjacency_list>>

Slot(v) == adjacency_list[v + 1]

\* How many times x occurs in the sequence s.
Occurrences(s, x) == Cardinality({i \in 1..Len(s) : s[i] = x})

IsLive(v) == v \in Live(G)

\* An id that add_vertex gave out and whose vertex is no longer live.
IsDeleted(v) == v < next_id /\ ~IsLive(v)

\* C1: after new(); add_vertices(n); fully_connect() the graph has n live
\* vertices and n^2 edges, exactly one for every ordered pair (i, j) of
\* vertices, self-loops included.
C1_FullConnection ==
    phase.st = "connected" =>
        /\ Graph_count_vertices(G) = phase.n
        /\ Graph_count_edges(G) = phase.n * phase.n
        /\ \A i \in 0..(phase.n - 1) :
              /\ Graph_get_adjacent_vertices(G, i).ok
              /\ \A j \in 0..(phase.n - 1) :
                    Occurrences(Graph_get_adjacent_vertices(G, i).value, j) = 1

C1_Witness == phase.st = "connected" /\ phase.n = 3 /\ Graph_count_edges(G) = 9

\* C2: after delete_vertex on k distinct live vertices of a graph with n live
\* vertices, nothing else in between: count_vertices() = n - k, get_vertex
\* finds none of the deleted ids, the survivors are the original live
\* sequence without the deleted ids, in the original order, and the adjacency
\* slot of each deleted id is empty.
C2_Deletion ==
    /\ Graph_count_vertices(G) = Len(base) - Len(deleted)
    /\ \A i, j \in 1..Len(deleted) : i # j => deleted[i] # deleted[j]
    /\ \A d \in Range(deleted) :
          /\ Graph_get_vertex(G, d) = None
          /\ Graph_get_adjacent_vertices(G, d).ok
          /\ Graph_get_adjacent_vertices(G, d).value = <<>>
    /\ IdsOf(vertices) = SelectSeq(base, LAMBDA id : id \notin Range(deleted))
    /\ \A id \in Range(IdsOf(vertices)) : Graph_get_vertex(G, id) = Vertex(id)

C2_Witness ==
    /\ last = Call("delete_vertex", 1, 0, TRUE)
    /\ base = <<0, 1, 2>>
    /\ deleted = <<1>>
    /\ IdsOf(vertices) = <<0, 2>>
    /\ 1 \in Range(Slot(0))

\* C3: delete_vertex(v) with v < next_id leaves every slot u # v as it was,
\* every occurrence of v as a destination included, and leaves next_id and
\* the number of slots unchanged.
C3_DeleteFrame ==
    [][(last'.op = "delete_vertex" /\ last'.x < next_id) =>
          /\ last'.ok
          /\ next_id' = next_id
          /\ name' = name
          /\ Len(adjacency_list') = Len(adjacency_list)
          /\ \A u \in 1..Len(adjacency_list) :
                u # last'.x + 1 => adjacency_list'[u] = adjacency_list[u]]_vars

C3_Witness ==
    /\ last.op = "delete_vertex"
    /\ last.ok
    /\ deleted # <<>>
    /\ \E u \in 0..(next_id - 1) : u # last.x /\ Occurrences(Slot(u), last.x) = 2

\* C4 as claimed: delete_vertex(v) with v not live (already deleted, or never
\* issued) does not abort and changes neither the live sequence, nor next_id,
\* nor any adjacency slot.
C4_Original ==
    [][(last'.op = "delete_vertex" /\ ~IsLive(last'.x)) =>
          /\ last'.ok
          /\ UNCHANGED <<vertices, next_id, adjacency_list>>]_vars

\* C4 as amended: delete_vertex(v) with v not live returns normally only when
\* v was issued (v < next_id); it then leaves the live sequence, next_id and
\* every slot but v unchanged and leaves slot v empty.  With v never issued
\* (v >= next_id) it aborts, and the graph is as it was.
C4_Amended ==
    [][(last'.op = "delete_vertex" /\ ~IsLive(last'.x)) =>
          IF last'.x < next_id
          THEN /\ last'.ok
               /\ UNCHANGED <<vertices, next_id>>
               /\ adjacency_list' = [adjacency_list EXCEPT ![last'.x + 1] = <<>>]
          ELSE /\ ~last'.ok
               /\ UNCHANGED <<vertices, next_id, adjacency_list>>]_vars

\* delete_vertex has just returned for an id deleted before, that other
\* vertices still point to.
C4_Witness ==
    /\ last.op = "delete_vertex"
    /\ last.ok
    /\ deleted = <<>>
    /\ IsDeleted(last.x)
    /\ vertices # <<>>
    /\ \E u \in 0..(next_id - 1) : last.x \in Range(Slot(u))

\* C5: add_edge(src, dst) and get_adjacent_vertices(src) abort exactly when
\* src >= next_id, whether or not src is live; add_edge never looks at dst
\* and stores it as given.
C5_BoundsOnly ==
    /\ [](\A src \in Ids :
            /\ Graph_get_adjacent_vertices(G, src).ok <=> src < next_id
            /\ src < next_id => Graph_get_adjacent_vertices(G, src).value = Slot(src))
    /\ [][last'.op = "add_edge" =>
            /\ last'.ok <=> last'.x < next_id
            /\ last'.ok =>
                  adjacency_list'[last'.x + 1] =
                      Append(adjacency_list[last'.x + 1], last'.y)]_vars

\* add_edge has just stored a never-issued dst in the slot of a deleted src.
C5_Witness ==
    /\ last.op = "add_edge"
    /\ last.ok
    /\ IsDeleted(last.x)
    /\ last.y >= next_id
    /\ Slot(last.x) = <<last.y>>

\* C6: slot v holds exactly the dst arguments of the successful
\* add_edge(v, dst) calls made since the slot was created or last cleared, in
\* call order, duplicates kept; a successful add_edge(src, dst) appends dst
\* to slot src, adds one to count_edges() and changes no other slot.
C6_AppendOrder ==
    /\ [](/\ Len(since) = next_id
          /\ \A v \in 0..(next_id - 1) :
                Graph_get_adjacent_vertices(G, v) = [ok |-> TRUE, value |-> since[v + 1]])
    /\ [][(last'.op = "add_edge" /\ last'.ok) =>
            /\ adjacency_list' =
                  [adjacency_list EXCEPT ![last'.x + 1] = Append(@, last'.y)]
            /\ Graph_count_edges(G') = Graph_count_edges(G) + 1]_vars

\* add_edge has just appended a smaller dst after a larger one, in a slot that
\* delete_vertex had cleared.
C6_Witness ==
    /\ last.op = "add_edge"
    /\ last.ok
    /\ IsDeleted(last.x)
    /\ Len(Slot(last.x)) = 2
    /\ Slot(last.x)[1] > Slot(last.x)[2]

\* C7: the k-th add_vertex call (from 0) creates the vertex with id k;
\* next_id never decreases, no id is issued twice, no two live vertices share
\* an id; after add_vertices(n) on a new graph count_vertices() = n and each
\* id in [0, n) is live exactly once.
C7_FreshIds ==
    /\ [](/\ issued = [k \in 1..Len(issued) |-> k - 1]
          /\ \A i, j \in 1..Len(vertices) : i # j => vertices[i].id # vertices[j].id
          /\ \A id \in Live(G) : id \in Range(issued)
          /\ phase.st = "added" =>
                /\ Graph_count_vertices(G) = phase.n
                /\ \A id \in 0..(phase.n - 1) : Occurrences(IdsOf(vertices), id) = 1)
    /\ [][next_id' >= next_id]_vars

\* add_vertex has just been called on a graph that had lost vertices.
C7_Witness ==
    /\ last.op = "add_vertex"
    /\ Len(issued) = 3
    /\ IdsOf(vertices) = <<1, 2>>

\* C8 as claimed: every issued id whose vertex was deleted is a valid
\* adjacency index that maps to an empty neighbour sequence.
C8_Original ==
    \A v \in Ids : IsDeleted(v) =>
        /\ Graph_get_adjacent_vertices(G, v).ok
        /\ Graph_get_adjacent_vertices(G, v).value = <<>>

\* C8 as amended: every issued id whose vertex was deleted is a valid
\* adjacency index; its slot is empty when the vertex is deleted and changes
\* afterwards only by add_edge calls with that id as src, each appending its
\* dst (and by a further delete_vertex of the id, which empties it again).
C8_Amended ==
    /\ [](\A v \in Ids : IsDeleted(v) => Graph_get_adjacent_vertices(G, v).ok)
    /\ [][\A v \in Ids :
            (v < next_id' /\ v \notin Live(G')) =>
               \/ adjacency_list'[v + 1] = <<>>
               \/ /\ IsDeleted(v)
                  /\ \/ adjacency_list'[v + 1] = adjacency_list[v + 1]
                     \/ /\ last' = Call("add_edge", v, last'.y, TRUE)
                        /\ adjacency_list'[v + 1] =
                              Append(adjacency_list[v + 1], last'.y)]_vars

\* A deleted id whose slot holds an edge again, after other calls.
C8_Witness ==
    \E v \in Ids :
        /\ IsDeleted(v)
        /\ Graph_get_adjacent_vertices(G, v).value # <<>>
        /\ last.op = "fully_connect"

\* C9: the number of slots equals next_id and every live id is below it, so
\* the assertion of add_vertex holds and display() and fully_connect() stay
\* in bounds, also after deletions.
C9_SlotsMatchNextId ==
    /\ Len(adjacency_list) = next_id
    /\ \A id \in Live(G) : id < Len(adjacency_list)
    /\ Graph_add_vertex(G).ok
    /\ Graph_display(G).ok
    /\ Len(Graph_display(G).out) = Len(vertices)
    /\ Graph_fully_connect(G).ok
    /\ last.op \in {"add_vertex", "add_vertices", "fully_connect"} => last.ok

\* fully_connect has just run on a graph that had lost a vertex.
C9_Witness ==
    /\ last.op = "fully_connect"
    /\ last.ok
    /\ next_id = 3
    /\ IdsOf(vertices) = <<0, 2>>

\* C10: a call that aborts leaves the live sequence, next_id and every slot
\* as they were before it; fully_connect does not abort.
C10_AbortKeepsState ==
    [][/\ ~last'.ok => UNCHANGED core
       /\ last'.op = "fully_connect" => last'.ok]_vars

\* delete_vertex has just aborted on a graph with live vertices and edges.
C10_Witness ==
    /\ last.op = "delete_vertex"
    /\ ~last.ok
    /\ Len(vertices) = 2
    /\ Graph_count_edges(G) > 0

====
